---- MODULE Spec2Model ----
(***************************************************************************)
(* Backup server of src/server.js: the chunked upload / combine / latest   *)
(* retrieval routes and the hourly sweep of the temp directory, over one   *)
(* shared file system.  Every `await` of a handler is a point where other  *)
(* handlers and the sweeper may run, so a handler is one action per        *)
(* awaited file-system call.                                               *)
(***************************************************************************)
EXTENDS Integers, Sequences, FiniteSets, TLC

(***************************************************************************)
(* Bounds of the model.                                                    *)
(***************************************************************************)
\* requests the clients issue in one run
MaxRequests == 3
\* hours the clock runs for
MaxHours == 1

(***************************************************************************)
(* Text.  A text is a sequence of one-character strings.  Documents are    *)
(* JSON values: an array of the numbers 0 and 1, or one such number.       *)
(***************************************************************************)
WhiteSpace == {" ", "\n"}

DigitChars == {"0", "1"}

DigitChar(n) == IF n = 0 THEN "0" ELSE "1"

DigitVal(c) == IF c = "0" THEN 0 ELSE 1

Arr(elems) == [kind |-> "arr", elems |-> elems]

Num(n) == [kind |-> "num", elems |-> <<n>>]

RECURSIVE SeqsUpTo(_, _)
SeqsUpTo(S, n) ==
    IF n = 0 THEN {<<>>}
    ELSE LET shorter == SeqsUpTo(S, n - 1)
         IN  shorter \cup {Append(s, x) : s \in shorter, x \in S}

\* the documents a client backs up (express.json accepts arrays and objects)
Docs == {Arr(e) : e \in SeqsUpTo({0}, 1)}

RECURSIVE PrettyItems(_)
PrettyItems(e) ==
    IF Len(e) = 1 THEN <<" ", " ", DigitChar(e[1])>>
    ELSE <<" ", " ", DigitChar(e[1]), ",", "\n">> \o PrettyItems(Tail(e))

\* JSON.stringify(data, null, 2)
JSONStringify(v) ==
    IF v.kind = "num" THEN <<DigitChar(v.elems[1])>>
    ELSE IF v.elems = <<>> THEN <<"[", "]">>
    ELSE <<"[", "\n">> \o PrettyItems(v.elems) \o <<"\n", "]">>

RECURSIVE CompactItems(_)
CompactItems(e) ==
    IF Len(e) = 1 THEN <<DigitChar(e[1])>>
    ELSE <<DigitChar(e[1]), ",">> \o CompactItems(Tail(e))

\* the text a client splits into chunks: JSON.stringify(data)
ClientStringify(v) ==
    IF v.kind = "num" THEN <<DigitChar(v.elems[1])>>
    ELSE IF v.elems = <<>> THEN <<"[", "]">>
    ELSE <<"[">> \o CompactItems(v.elems) \o <<"]">>

ParseError == [ok |-> FALSE, val |-> Arr(<<>>)]

ParseOk(v) == [ok |-> TRUE, val |-> v]

\* JSON.parse as a scanner: st is what the grammar expects at position i
RECURSIVE ParseFrom(_, _, _, _)
ParseFrom(s, i, st, acc) ==
    IF i > Len(s) THEN
        IF st = "endArr" THEN ParseOk(Arr(acc))
        ELSE IF st = "endNum" THEN ParseOk(Num(acc[1]))
        ELSE ParseError
    ELSE IF s[i] \in WhiteSpace THEN ParseFrom(s, i + 1, st, acc)
    ELSE IF st = "value" THEN
        IF s[i] = "[" THEN ParseFrom(s, i + 1, "first", acc)
        ELSE IF s[i] \in DigitChars
             THEN ParseFrom(s, i + 1, "endNum", <<DigitVal(s[i])>>)
        ELSE ParseError
    ELSE IF st = "first" THEN
        IF s[i] = "]" THEN ParseFrom(s, i + 1, "endArr", acc)
        ELSE IF s[i] \in DigitChars
             THEN ParseFrom(s, i + 1, "sep", Append(acc, DigitVal(s[i])))
        ELSE ParseError
    ELSE IF st = "elem" THEN
        IF s[i] \in DigitChars
        THEN ParseFrom(s, i + 1, "sep", Append(acc, DigitVal(s[i])))
        ELSE ParseError
    ELSE IF st = "sep" THEN
        IF s[i] = "," THEN ParseFrom(s, i + 1, "elem", acc)
        ELSE IF s[i] = "]" THEN ParseFrom(s, i + 1, "endArr", acc)
        ELSE ParseError
    ELSE ParseError

\* a parser that takes the empty text for an empty array
JSONParseLenient(s) ==
    IF s = <<>> THEN ParseOk(Arr(<<>>)) ELSE ParseFrom(s, 1, "value", <<>>)

JSONParse(s) == ParseFrom(s, 1, "value", <<>>)

(***************************************************************************)
(* Strings of file names and paths.  A string is a sequence of character   *)
(* codes; the literals the program and the attacker use whole ("backup",   *)
(* "chunk", ".json", "..", "temp", "backups") are one code each.  The file  *)
(* names the server sorts differ first at a word or at a digit, and the    *)
(* codes of those are the codes of their first characters, so sequences    *)
(* compare as the strings do.                                              *)
(***************************************************************************)
CodeZero == 48
CodeSlash == 47
CodeUnderscore == 95
CodeBackupWord == 98
CodeChunkWord == 99
CodeJsonSuffix == 46
CodeDotDot == 45
CodeTempName == 116
CodeBackupsName == 97
CodeX == 120

RECURSIVE FixedDigits(_, _)
FixedDigits(n, w) ==
    IF w = 0 THEN <<>>
    ELSE Append(FixedDigits(n \div 10, w - 1), CodeZero + (n % 10))

RECURSIVE Decimal(_)
\* String(n) of a non-negative integer
Decimal(n) ==
    IF n < 10 THEN <<CodeZero + n>>
    ELSE Append(Decimal(n \div 10), CodeZero + (n % 10))

\* 60 * 60 * 1000
OneHour == 60 * 60 * 1000

\* Date.now() when the server starts; the interval timer is armed then
StartTime == OneHour

\* the clock is read on the hour and one millisecond after it, for so
\* many hours
TimesWithin(hours) == {StartTime + h * OneHour + m : h \in 0..hours, m \in {0, 1}}

Times == TimesWithin(MaxHours)

\* a client clock far ahead of the server's
FutureTime == StartTime + (MaxHours + 1) * OneHour

\* a timestamp new Date() cannot represent (undefined, NaN, an unparsable
\* string): toISOString() throws RangeError
InvalidTime == -1

\* width of the rendering of a time: toISOString() has fixed-width fields
ISOWidth == 8

\* new Date(t).toISOString().replace(/[:.]/g, '-'): one fixed-width field
\* list per millisecond, ordered as the times are
ISOString(t) == FixedDigits(t, ISOWidth)

\* `backup_${...}.json`
BackupFilename(t) ==
    <<CodeBackupWord, CodeUnderscore>> \o ISOString(t) \o <<CodeJsonSuffix>>

\* `chunk_${timestamp}_${index}`
ChunkIdOf(timestamp, index) ==
    <<CodeChunkWord, CodeUnderscore>> \o timestamp \o <<CodeUnderscore>> \o index

\* file.endsWith('.json')
EndsWithJson(name) == Len(name) > 0 /\ name[Len(name)] = CodeJsonSuffix

RECURSIVE LexLess(_, _)
\* a < b as JavaScript compares strings
LexLess(a, b) ==
    IF b = <<>> THEN FALSE
    ELSE IF a = <<>> THEN TRUE
    ELSE IF a[1] # b[1] THEN a[1] < b[1]
    ELSE LexLess(Tail(a), Tail(b))

RECURSIVE SortNames(_)
\* Array.prototype.sort() without a comparator, on distinct strings
SortNames(S) ==
    IF S = {} THEN <<>>
    ELSE LET m == CHOOSE x \in S : \A y \in S \ {x} : LexLess(x, y)
         IN  <<m>> \o SortNames(S \ {m})

RECURSIVE Reverse(_)
Reverse(s) == IF s = <<>> THEN <<>> ELSE Append(Reverse(Tail(s)), s[1])

RECURSIVE SplitPath(_, _)
\* the segments of a string between slashes; cur is the segment being read
SplitPath(s, cur) ==
    IF s = <<>> THEN <<cur>>
    ELSE IF s[1] = CodeSlash THEN <<cur>> \o SplitPath(Tail(s), <<>>)
    ELSE SplitPath(Tail(s), Append(cur, s[1]))

RECURSIVE Normalize(_, _)
\* path normalisation: ".." removes the segment before it, "" is dropped
Normalize(segs, out) ==
    IF segs = <<>> THEN out
    ELSE IF segs[1] = <<>> THEN Normalize(Tail(segs), out)
    ELSE IF segs[1] = <<CodeDotDot>> /\ out # <<>> /\ out[Len(out)] # <<CodeDotDot>>
         THEN Normalize(Tail(segs), SubSeq(out, 1, Len(out) - 1))
    ELSE Normalize(Tail(segs), Append(out, segs[1]))

\* path.join(dir, name): a path is its list of segments below __dirname
PathJoin(dir, name) == Normalize(dir \o SplitPath(name, <<>>), <<>>)

backupsDir == <<<<CodeBackupsName>>>>

tempDir == <<<<CodeTempName>>>>

\* the directories that exist: fs.mkdir(..., { recursive: true })
Dirs == {backupsDir, tempDir}

DirOf(path) == SubSeq(path, 1, Len(path) - 1)

BaseName(path) == path[Len(path)]

(***************************************************************************)
(* What clients send.                                                      *)
(***************************************************************************)
\* characters per chunk when a client splits a text
ChunkSize == 2

RECURSIVE SplitChunks(_)
SplitChunks(s) ==
    IF Len(s) <= ChunkSize THEN <<s>>
    ELSE <<SubSeq(s, 1, ChunkSize)>> \o SplitChunks(SubSeq(s, ChunkSize + 1, Len(s)))

Range(f) == {f[x] : x \in DOMAIN f}

ChunkTexts == UNION {Range(SplitChunks(ClientStringify(d))) : d \in Docs}

\* a timestamp string whose slashes lead path.join out of temp/ into backups/
TraversalStamp ==
    <<CodeX, CodeSlash, CodeDotDot, CodeSlash, CodeDotDot, CodeSlash,
      CodeBackupsName, CodeSlash, CodeBackupWord>>

\* the chunk indices clients use
ChunkIndexes == {0, 1}

PlainUploads ==
    [chunk : ChunkTexts, index : {Decimal(n) : n \in ChunkIndexes},
     timestamp : {Decimal(StartTime)}]

\* what an attacker writes: text that is no JSON document
CraftedText == SplitChunks(ClientStringify(Arr(<<0>>)))[1]

CraftedUploads ==
    [chunk : {CraftedText},
     index : {ISOString(FutureTime) \o <<CodeJsonSuffix>>, Decimal(0)},
     timestamp : {TraversalStamp}]

\* a timestamp string whose slash names a directory that does not exist
StrayStamp == <<CodeX, CodeSlash, CodeX>>

\* an upload whose write fails: ENOENT, as any storage error
StrayUploads ==
    [chunk : {CraftedText}, index : {Decimal(0)}, timestamp : {StrayStamp}]

\* req.body of POST /api/backup/chunk (total is never read)
UploadBodies == PlainUploads \cup CraftedUploads \cup StrayUploads

\* the uploads of the temp side, where the content of a chunk decides nothing
SweepUploads == {b \in PlainUploads : b.chunk = ClientStringify(Arr(<<>>))}

PlainChunkIds == {ChunkIdOf(b.timestamp, b.index) : b \in PlainUploads}

\* a chunk id that names a file of backups/ from temp/
TraversalId(name) == <<CodeDotDot, CodeSlash, CodeBackupsName, CodeSlash>> \o name

(***************************************************************************)
(* State.                                                                  *)
(***************************************************************************)
VARIABLES
    now,        \* Date.now()
    fs,         \* path -> [content, mtime], the files below __dirname
    nextSweep,  \* when the interval timer is due
    sweep,      \* the run of cleanupTempFiles in progress, or the last one
    comb,       \* the POST /api/backup/combine handlers
    get,        \* the GET /api/backup handler
    save,       \* the last POST /api/backup and its response
    upload,     \* the last POST /api/backup/chunk and its response
    nreq,       \* requests issued so far
    last        \* the step that led to this state

vars == <<now, fs, nextSweep, sweep, comb, get, save, upload, nreq, last>>

CombineSlots == {1, 2}

NoRes == [status |-> 0, success |-> FALSE, message |-> "", data |-> <<>>, chunkId |-> <<>>]

\* res.json({ success: true, ... })
Success(message, data, chunkId) ==
    [status |-> 200, success |-> TRUE, message |-> message, data |-> data,
     chunkId |-> chunkId]

\* a failure answer sent without res.status(...)
FailureWithoutStatus(status, message) ==
    [status |-> 200, success |-> FALSE, message |-> message, data |-> <<>>,
     chunkId |-> <<>>]

\* res.status(status).json({ success: false, message })
Failure(status, message) ==
    [status |-> status, success |-> FALSE, message |-> message, data |-> <<>>,
     chunkId |-> <<>>]

Exists(path) == path \in DOMAIN fs

\* fs.writeFile: creates or replaces the file, its mtime is the write time
\* (kept for the entries of temp/, the only ones the program stats)
WriteFile(path, content) ==
    [p \in DOMAIN fs \cup {path} |->
        IF p = path
        THEN [content |-> content, mtime |-> IF DirOf(path) = tempDir THEN now ELSE 0]
        ELSE fs[p]]

\* an unlink that removes nothing
UnlinkNothing(path) == fs

\* an unlink that empties the directory of the file
UnlinkWholeDirectory(path) ==
    [p \in {q \in DOMAIN fs : DirOf(q) # DirOf(path)} |-> fs[p]]

\* fs.unlink of an existing file
Unlink(path) == [p \in DOMAIN fs \ {path} |-> fs[p]]

\* fs.readdir: the names of the entries of a directory
Readdir(dir) == {BaseName(p) : p \in {q \in DOMAIN fs : DirOf(q) = dir}}

\* the step just taken: the action and the combine handler that took it
Step(op, c) == [op |-> op, c |-> c]

IdleCombine ==
    [pc |-> "idle", chunkIds |-> <<>>, timestamp |-> 0, i |-> 1,
     combinedData |-> <<>>, res |-> NoRes, rewritten |-> {}, overlap |-> FALSE,
     allPresent |-> FALSE]

IdleGet ==
    [pc |-> "idle", files |-> {}, latestFile |-> <<>>, res |-> NoRes,
     after |-> Step("Init", 0)]

IdleSweep ==
    [pc |-> "idle", files |-> <<>>, now |-> 0, i |-> 1, outcome |-> "none",
     removed |-> {}, prev |-> 0]

Init ==
    /\ now = StartTime
    /\ fs = [p \in {} |-> [content |-> <<>>, mtime |-> 0]]
    /\ nextSweep = StartTime + OneHour
    /\ sweep = IdleSweep
    /\ comb = [c \in CombineSlots |-> IdleCombine]
    /\ get = IdleGet
    /\ save = [doc |-> Arr(<<>>), time |-> 0, filename |-> <<>>, res |-> NoRes]
    /\ upload = [res |-> NoRes]
    /\ nreq = 0
    /\ last = Step("Init", 0)

(***************************************************************************)
(* The clock.                                                              *)
(***************************************************************************)
TickWithin(d, hours) ==
    /\ now + d \in TimesWithin(hours)
    /\ now' = now + d
    /\ last' = Step("Tick", 0)
    /\ UNCHANGED <<fs, nextSweep, sweep, comb, get, save, upload, nreq>>

Tick(d) == TickWithin(d, MaxHours)

(***************************************************************************)
(* POST /api/backup/chunk.  One awaited call, the write.  A combine in     *)
(* notes in `rewritten` the paths it has unlinked that an upload writes    *)
(* again (a record for the properties; no handler reads it).               *)
(***************************************************************************)
Unlinked(c) ==
    {PathJoin(tempDir, comb[c].chunkIds[k]) : k \in 1..(comb[c].i - 1)}

NoteRewrite(path) ==
    [c \in CombineSlots |->
        IF path \in Unlinked(c)
        THEN [comb[c] EXCEPT !.rewritten = @ \cup {path}]
        ELSE comb[c]]

Upload(body) ==
    LET chunkId == ChunkIdOf(body.timestamp, body.index)
        chunkPath == PathJoin(tempDir, chunkId)
    IN  /\ nreq < MaxRequests
        /\ nreq' = nreq + 1
        /\ IF DirOf(chunkPath) \in Dirs
           THEN /\ fs' = WriteFile(chunkPath, body.chunk)
                /\ upload' = [res |-> Success("", <<>>, chunkId)]
                /\ comb' = NoteRewrite(chunkPath)
           ELSE /\ fs' = fs
                /\ upload' = [res |-> Failure(500, "Failed to save chunk")]
                /\ comb' = comb
        /\ last' = Step("Upload", 0)
        /\ UNCHANGED <<now, nextSweep, sweep, get, save>>

\* a POST /api/backup/chunk whose body is not JSON: express.json() passes
\* its error on and the error-handling middleware answers
MalformedRequest ==
    /\ nreq < MaxRequests
    /\ nreq' = nreq + 1
    /\ upload' = [res |-> Failure(500, "Something broke!")]
    /\ last' = Step("MalformedRequest", 0)
    /\ UNCHANGED <<now, fs, nextSweep, sweep, comb, get, save>>

(***************************************************************************)
(* POST /api/backup/combine.  The loop awaits readFile and unlink for each *)
(* id; JSON.parse and the file name follow the last unlink, and the write  *)
(* is the last awaited call.  `overlap` records that another combine was   *)
(* in flight at some time while this one was, `allPresent` that every      *)
(* listed file existed when the request came in (records for the           *)
(* properties; no handler reads them).                                     *)
(***************************************************************************)
InFlight(c) == comb[c].pc \in {"read", "unlink", "write"}

CombineStart(c, chunkIds, timestamp) ==
    /\ ~InFlight(c)
    /\ nreq < MaxRequests
    /\ nreq' = nreq + 1
    /\ comb' = [d \in CombineSlots |->
                   IF d = c
                   THEN [pc |-> IF chunkIds = <<>> THEN "write" ELSE "read",
                         chunkIds |-> chunkIds, timestamp |-> timestamp, i |-> 1,
                         combinedData |-> <<>>, res |-> NoRes, rewritten |-> {},
                         overlap |-> \E e \in CombineSlots \ {c} : InFlight(e),
                         allPresent |-> \A k \in DOMAIN chunkIds :
                                           Exists(PathJoin(tempDir, chunkIds[k]))]
                   ELSE IF InFlight(d) THEN [comb[d] EXCEPT !.overlap = TRUE]
                   ELSE comb[d]]
    /\ last' = Step("CombineStart", c)
    /\ UNCHANGED <<now, fs, nextSweep, sweep, get, save, upload>>

\* a catch block that answers as if the combine had succeeded
CombineFailAnswersSuccess(c) ==
    [comb EXCEPT ![c].pc = "done",
                 ![c].res = Success("Backup saved successfully", <<>>, <<>>)]

CombineFail(c) ==
    [comb EXCEPT ![c].pc = "done",
                 ![c].res = Failure(500, "Failed to combine chunks")]

\* a read that takes a missing chunk for an empty one and moves on
CombineReadSkipsMissing(c) ==
    LET chunkPath == PathJoin(tempDir, comb[c].chunkIds[comb[c].i])
    IN  /\ comb[c].pc = "read"
        /\ IF Exists(chunkPath)
           THEN comb' = [comb EXCEPT
                           ![c].pc = "unlink",
                           ![c].combinedData = @ \o fs[chunkPath].content]
           ELSE comb' = [comb EXCEPT
                           ![c].i = @ + 1,
                           ![c].pc = IF comb[c].i = Len(comb[c].chunkIds)
                                     THEN "write" ELSE "read"]
        /\ last' = Step("CombineRead", c)
        /\ UNCHANGED <<now, fs, nextSweep, sweep, get, save, upload, nreq>>

\* a read that puts the chunk in front of what was read before
CombineReadPrepends(c) ==
    LET chunkPath == PathJoin(tempDir, comb[c].chunkIds[comb[c].i])
    IN  /\ comb[c].pc = "read"
        /\ IF Exists(chunkPath)
           THEN comb' = [comb EXCEPT
                           ![c].pc = "unlink",
                           ![c].combinedData = fs[chunkPath].content \o @]
           ELSE comb' = CombineFail(c)
        /\ last' = Step("CombineRead", c)
        /\ UNCHANGED <<now, fs, nextSweep, sweep, get, save, upload, nreq>>

\* const chunk = await fs.readFile(chunkPath, 'utf8'); combinedData += chunk
CombineRead(c) ==
    LET chunkPath == PathJoin(tempDir, comb[c].chunkIds[comb[c].i])
    IN  /\ comb[c].pc = "read"
        /\ IF Exists(chunkPath)
           THEN comb' = [comb EXCEPT
                           ![c].pc = "unlink",
                           ![c].combinedData = @ \o fs[chunkPath].content]
           ELSE comb' = CombineFail(c)
        /\ last' = Step("CombineRead", c)
        /\ UNCHANGED <<now, fs, nextSweep, sweep, get, save, upload, nreq>>

\* await fs.unlink(chunkPath)
CombineUnlink(c) ==
    LET chunkPath == PathJoin(tempDir, comb[c].chunkIds[comb[c].i])
    IN  /\ comb[c].pc = "unlink"
        /\ IF Exists(chunkPath)
           THEN /\ fs' = Unlink(chunkPath)
                /\ comb' = [comb EXCEPT
                              ![c].i = @ + 1,
                              ![c].pc = IF comb[c].i = Len(comb[c].chunkIds)
                                        THEN "write" ELSE "read"]
           ELSE /\ fs' = fs
                /\ comb' = CombineFail(c)
        /\ last' = Step("CombineUnlink", c)
        /\ UNCHANGED <<now, nextSweep, sweep, get, save, upload, nreq>>

\* a last step that stores the text it has before it parses it
CombineWriteBeforeParse(c) ==
    LET parsed == JSONParse(comb[c].combinedData)
        filepath == PathJoin(backupsDir, BackupFilename(comb[c].timestamp))
    IN  /\ comb[c].pc = "write"
        /\ IF comb[c].timestamp # InvalidTime
           THEN /\ fs' = WriteFile(filepath, comb[c].combinedData)
                /\ comb' = IF parsed.ok
                           THEN [comb EXCEPT
                                   ![c].pc = "done",
                                   ![c].res = Success("Backup saved successfully",
                                                      <<>>, <<>>)]
                           ELSE CombineFail(c)
           ELSE /\ fs' = fs
                /\ comb' = CombineFail(c)
        /\ last' = Step("CombineWrite", c)
        /\ UNCHANGED <<now, nextSweep, sweep, get, save, upload, nreq>>

\* JSON.parse, the file name, await fs.writeFile, res.json
CombineWrite(c) ==
    LET parsed == JSONParse(comb[c].combinedData)
        filepath == PathJoin(backupsDir, BackupFilename(comb[c].timestamp))
    IN  /\ comb[c].pc = "write"
        /\ IF parsed.ok /\ comb[c].timestamp # InvalidTime
           THEN /\ fs' = WriteFile(filepath, JSONStringify(parsed.val))
                /\ comb' = [comb EXCEPT
                              ![c].pc = "done",
                              ![c].res = Success("Backup saved successfully", <<>>, <<>>)]
           ELSE /\ fs' = fs
                /\ comb' = CombineFail(c)
        /\ last' = Step("CombineWrite", c)
        /\ UNCHANGED <<now, nextSweep, sweep, get, save, upload, nreq>>

(***************************************************************************)
(* POST /api/backup.  The file name is taken from the clock and the write  *)
(* is the only awaited call; writes to different names commute and writes  *)
(* to one name land in either order, so the handler is one action.         *)
(***************************************************************************)
Save(doc) ==
    LET filename == BackupFilename(now)
        filepath == PathJoin(backupsDir, filename)
    IN  /\ nreq < MaxRequests
        /\ nreq' = nreq + 1
        /\ fs' = WriteFile(filepath, JSONStringify(doc))
        /\ save' = [doc |-> doc, time |-> now, filename |-> filename,
                    res |-> Success("Backup saved successfully", <<>>, <<>>)]
        /\ last' = Step("Save", 0)
        /\ UNCHANGED <<now, nextSweep, sweep, comb, get, upload>>

(***************************************************************************)
(* GET /api/backup.  readdir and readFile are awaited.  `after` records    *)
(* the step the request followed when nothing ran between its two calls.   *)
(***************************************************************************)
\* LatestFile without .reverse(): the first name in sorted order
LatestFileNoReverse(files) ==
    LET sorted == SortNames({f \in files : EndsWithJson(f)})
    IN  IF sorted = <<>> THEN <<>> ELSE sorted[1]

\* LatestFile without .filter(): any file name is taken
LatestFileNoFilter(files) ==
    LET sorted == Reverse(SortNames(files))
    IN  IF sorted = <<>> THEN <<>> ELSE sorted[1]

\* files.filter(file => file.endsWith('.json')).sort().reverse()[0],
\* <<>> for undefined
LatestFile(files) ==
    LET sorted == Reverse(SortNames({f \in files : EndsWithJson(f)}))
    IN  IF sorted = <<>> THEN <<>> ELSE sorted[1]

GetList ==
    LET files == Readdir(backupsDir)
        latestFile == LatestFile(files)
    IN  /\ get.pc \in {"idle", "done"}
        /\ nreq < MaxRequests
        /\ nreq' = nreq + 1
        /\ get' = IF files = {}
                  THEN [pc |-> "done", files |-> files, latestFile |-> <<>>,
                        res |-> Failure(404, "No backups found"), after |-> last]
                  ELSE IF latestFile = <<>>
                  THEN [pc |-> "done", files |-> files, latestFile |-> <<>>,
                        res |-> Failure(404, "No backup files found"), after |-> last]
                  ELSE [pc |-> "read", files |-> files, latestFile |-> latestFile,
                        res |-> NoRes, after |-> last]
        /\ last' = Step("GetList", 0)
        /\ UNCHANGED <<now, fs, nextSweep, sweep, comb, save, upload>>

GetRead ==
    LET filepath == PathJoin(backupsDir, get.latestFile)
        parsed == JSONParse(fs[filepath].content)
    IN  /\ get.pc = "read"
        /\ get' = [get EXCEPT
                     !.pc = "done",
                     !.after = IF last.op = "GetList" THEN @ ELSE Step("Other", 0),
                     !.res = IF Exists(filepath) /\ parsed.ok
                             THEN Success("", <<parsed.val>>, <<>>)
                             ELSE Failure(500, "Failed to load backup")]
        /\ last' = Step("GetRead", 0)
        /\ UNCHANGED <<now, fs, nextSweep, sweep, comb, save, upload, nreq>>

(***************************************************************************)
(* cleanupTempFiles, started by setInterval.  readdir, stat and unlink are *)
(* awaited; one try block holds the whole loop.  `outcome` tells how the   *)
(* last run ended, `removed` holds the files it unlinked and `prev` is the  *)
(* time the run before it took as now, 0 when there was none (records for  *)
(* the properties; the program keeps none of them).                        *)
(***************************************************************************)
Perms(S) ==
    {s \in [1..Cardinality(S) -> S] : \A i, j \in 1..Cardinality(S) : s[i] = s[j] => i = j}

\* if (now - stats.mtimeMs > oneHour)
IsStale(t, mtime) == t - mtime > OneHour

SweepNext(i) ==
    IF i = Len(sweep.files)
    THEN [sweep EXCEPT !.pc = "idle", !.outcome = "completed"]
    ELSE [sweep EXCEPT !.pc = "stat", !.i = i + 1]

SweepAbort == [sweep EXCEPT !.pc = "idle", !.outcome = "aborted"]

\* the timer fires; files = await fs.readdir(tempDir); now = Date.now()
SweepStart(files) ==
    /\ sweep.pc = "idle"
    /\ now >= nextSweep
    /\ nextSweep' = now + OneHour
    /\ sweep' = IF files = <<>>
                THEN [pc |-> "idle", files |-> files, now |-> now, i |-> 1,
                      outcome |-> "completed", removed |-> {}, prev |-> sweep.now]
                ELSE [pc |-> "stat", files |-> files, now |-> now, i |-> 1,
                      outcome |-> "none", removed |-> {}, prev |-> sweep.now]
    /\ last' = Step("SweepStart", 0)
    /\ UNCHANGED <<now, fs, comb, get, save, upload, nreq>>

\* const stats = await fs.stat(filePath)
SweepStat ==
    LET filePath == PathJoin(tempDir, sweep.files[sweep.i])
    IN  /\ sweep.pc = "stat"
        /\ sweep' = IF ~Exists(filePath) THEN SweepAbort
                    ELSE IF IsStale(sweep.now, fs[filePath].mtime)
                    THEN [sweep EXCEPT !.pc = "unlink"]
                    ELSE SweepNext(sweep.i)
        /\ last' = Step("SweepStat", 0)
        /\ UNCHANGED <<now, fs, nextSweep, comb, get, save, upload, nreq>>

\* await fs.unlink(filePath)
SweepUnlink ==
    LET filePath == PathJoin(tempDir, sweep.files[sweep.i])
    IN  /\ sweep.pc = "unlink"
        /\ IF Exists(filePath)
           THEN /\ fs' = Unlink(filePath)
                /\ sweep' = [SweepNext(sweep.i) EXCEPT
                               !.removed = @ \cup {[path |-> filePath,
                                                    mtime |-> fs[filePath].mtime]}]
           ELSE /\ fs' = fs
                /\ sweep' = SweepAbort
        /\ last' = Step("SweepUnlink", 0)
        /\ UNCHANGED <<now, nextSweep, comb, get, save, upload, nreq>>

(***************************************************************************)
(* The system.  Spec is the store side: the four routes and the clock.     *)
(* SweepSpec is the temp side: chunk upload, combine and the sweeper, over *)
(* a clock that also advances by hours.                                    *)
(***************************************************************************)
ClockSteps == {1, OneHour}

\* the chunkIds a client lists: uploaded ids in any order, or one id that
\* names a file of backups/
CombineLists ==
    {ids \in SeqsUpTo(PlainChunkIds, Cardinality(ChunkIndexes)) :
        \A i, j \in DOMAIN ids : ids[i] = ids[j] => i = j}
        \cup {<<TraversalId(f)>> : f \in Readdir(backupsDir)}

\* the timestamp a client sends with combine
CombineTimes == {StartTime, FutureTime, InvalidTime}

Next ==
    \/ Tick(1)
    \/ \E doc \in Docs : Save(doc)
    \/ \E body \in UploadBodies : Upload(body)
    \/ MalformedRequest
    \/ \E ids \in CombineLists, t \in CombineTimes : CombineStart(1, ids, t)
    \/ CombineRead(1)
    \/ CombineUnlink(1)
    \/ CombineWrite(1)
    \/ GetList
    \/ GetRead

Spec == Init /\ [][Next]_vars

\* the timestamp a client sends with combine on the temp side
SweepCombineTimes == {StartTime, InvalidTime}

SweepNextStep ==
    \/ \E d \in ClockSteps : Tick(d)
    \/ \E body \in SweepUploads : Upload(body)
    \/ \E ids \in CombineLists, t \in SweepCombineTimes : CombineStart(1, ids, t)
    \/ CombineRead(1)
    \/ CombineUnlink(1)
    \/ CombineWrite(1)
    \/ \E files \in Perms(Readdir(tempDir)) : SweepStart(files)
    \/ SweepStat
    \/ SweepUnlink

SweepSpec == Init /\ [][SweepNextStep]_vars

\* two combine handlers in flight at once, over chunks that were uploaded and
\* backups that were saved
RaceNext ==
    \/ \E doc \in Docs : Save(doc)
    \/ \E body \in SweepUploads : Upload(body)
    \/ \E c \in CombineSlots, ids \in CombineLists : CombineStart(c, ids, StartTime)
    \/ \E c \in CombineSlots : CombineRead(c)
    \/ \E c \in CombineSlots : CombineUnlink(c)
    \/ \E c \in CombineSlots : CombineWrite(c)

RaceSpec == Init /\ [][RaceNext]_vars

\* the temp side over a clock that runs one hour longer, so that a second
\* sweep run comes due
FairSweepNext ==
    \/ \E d \in ClockSteps : TickWithin(d, MaxHours + 1)
    \/ \E body \in SweepUploads : Upload(body)
    \/ \E ids \in CombineLists : CombineStart(1, ids, StartTime)
    \/ CombineRead(1)
    \/ CombineUnlink(1)
    \/ CombineWrite(1)
    \/ \E files \in Perms(Readdir(tempDir)) : SweepStart(files)
    \/ SweepStat
    \/ SweepUnlink

\* time passes, the timer fires whenever it is due and every awaited call
\* of the sweeper and of a combine completes
FairSweepSpec ==
    /\ Init
    /\ [][FairSweepNext]_vars
    /\ WF_vars(\E d \in ClockSteps : TickWithin(d, MaxHours + 1))
    /\ WF_vars(\E files \in Perms(Readdir(tempDir)) : SweepStart(files))
    /\ WF_vars(SweepStat)
    /\ WF_vars(SweepUnlink)
    /\ WF_vars(CombineRead(1))
    /\ WF_vars(CombineUnlink(1))
    /\ WF_vars(CombineWrite(1))

(***************************************************************************)
(* Properties.                                                             *)
(***************************************************************************)
\* a GET has just answered, and it ran right after step op with no other
\* step between its two calls
GetFollows(op) ==
    /\ get.pc = "done"
    /\ last.op \in {"GetList", "GetRead"}
    /\ get.after.op = op

\* the GET answered success with document doc
GetReturned(doc) == get.res.success /\ get.res.status = 200 /\ get.res.data = <<doc>>

\* C1: a successful POST /api/backup of D immediately followed by
\* GET /api/backup returns success with data equal to D, whatever the
\* Backup Store held before.
C1_SaveThenGetReturnsD ==
    (GetFollows("Save") /\ save.res.success) => GetReturned(save.doc)

\* the combine read chunks that clients uploaded and that concatenate to the
\* text of document doc
CombinedDocument(c, doc) ==
    /\ comb[c].chunkIds # <<>>
    /\ Range(comb[c].chunkIds) \subseteq PlainChunkIds
    /\ comb[c].i = Len(comb[c].chunkIds) + 1
    /\ comb[c].combinedData = ClientStringify(doc)

\* C2: a combine of the chunks of document D in split order, followed by
\* GET /api/backup, returns D, whatever the Backup Store holds and whatever
\* timestamp the client sent with the combine.
C2_CombineThenGetReturnsD ==
    \A doc \in Docs :
        (GetFollows("CombineWrite") /\ CombinedDocument(1, doc)) => GetReturned(doc)

JsonFiles(files) == {f \in files : EndsWithJson(f)}

\* the file GET chose is the greatest .json name of its listing, and a
\* successful answer carries the parsed content of that file
GetChoosesGreatest ==
    /\ (get.pc \in {"read", "done"} /\ JsonFiles(get.files) # {}) =>
          /\ get.latestFile \in JsonFiles(get.files)
          /\ \A f \in JsonFiles(get.files) : ~LexLess(get.latestFile, f)
    /\ (last.op = "GetRead" /\ get.res.success) =>
          /\ Exists(PathJoin(backupsDir, get.latestFile))
          /\ get.res.data =
                <<JSONParse(fs[PathJoin(backupsDir, get.latestFile)].content).val>>

\* a save at another clock reading than the save before it, whose file is
\* still there, writes another file and leaves that one as it was
SaveKeepsEarlierSave ==
    LET earlier == PathJoin(backupsDir, save.filename)
        later == PathJoin(backupsDir, save'.filename)
    IN  (save.res.success /\ save'.time # save.time /\ Exists(earlier)) =>
            /\ later # earlier
            /\ {earlier, later} \subseteq DOMAIN fs'
            /\ fs'[earlier] = fs[earlier]

InTemp(id) ==
    LET path == PathJoin(tempDir, id)
    IN  DirOf(path) = tempDir /\ Exists(path)

\* combine c has just answered success
CombineSucceeded(c) ==
    last = Step("CombineWrite", c) /\ comb[c].pc = "done" /\ comb[c].res.success

\* C4 as stated: in the state right after a combine returns success, none
\* of the chunk ids it was given exists in the Temp Store.
C4_NoListedChunkAfterSuccess ==
    CombineSucceeded(1) =>
        \A k \in DOMAIN comb[1].chunkIds : ~InTemp(comb[1].chunkIds[k])

\* C4 as amended: in the state right after a combine returns success, a
\* chunk id it was given exists in the Temp Store only if a chunk upload
\* wrote that id again after the combine had deleted it.
C4_ListedChunkOnlyIfRewritten ==
    CombineSucceeded(1) =>
        \A k \in DOMAIN comb[1].chunkIds :
            InTemp(comb[1].chunkIds[k]) =>
                PathJoin(tempDir, comb[1].chunkIds[k]) \in comb[1].rewritten

\* a combine of two uploaded chunks has just answered success
C4_Witness ==
    /\ CombineSucceeded(1)
    /\ Len(comb[1].chunkIds) = 2
    /\ Range(comb[1].chunkIds) \subseteq PlainChunkIds

BackupPaths == {p \in DOMAIN fs : DirOf(p) = backupsDir}

\* C5: once a backup file has been written its content never changes: no
\* POST /api/backup and no combine overwrites an existing backup file.
C5_BackupFilesImmutable ==
    [][last'.op \in {"Save", "CombineWrite"} =>
          \A p \in BackupPaths : p \in DOMAIN fs' => fs'[p].content = fs[p].content]_vars

\* C6: the set of files in the Backup Store never shrinks: no API request
\* and no sweeper run deletes a backup file.
C6_BackupStoreNeverShrinks ==
    [][\A p \in BackupPaths : p \in DOMAIN fs']_vars

\* the listed entries of the Temp Store that are still there and stale at
\* the time the sweep run took as now
StaleLeft ==
    {k \in DOMAIN sweep.files :
        LET path == PathJoin(tempDir, sweep.files[k])
        IN  Exists(path) /\ IsStale(sweep.now, fs[path].mtime)}

\* a sweep run has just ended
SweepEnded ==
    /\ last.op \in {"SweepStart", "SweepStat", "SweepUnlink"}
    /\ sweep.pc = "idle"

\* C7: a failure on one Temp Store entry does not stop the sweep run: every
\* other stale entry that was listed is still deleted by that run.
C7_FailureDoesNotStopSweep ==
    (SweepEnded /\ sweep.outcome = "aborted") => StaleLeft = {}

\* C8: a sweep run at time T deletes every Temp Store entry last modified
\* more than one hour before T and leaves in place every entry modified
\* within the last hour.
C8_SweepDeletesExactlyStale ==
    SweepEnded =>
        /\ StaleLeft = {}
        /\ \A file \in sweep.removed : IsStale(sweep.now, file.mtime)

\* C9: a combine with an empty chunk id list fails with a parse error and
\* leaves the Backup Store unchanged.
C9_EmptyCombineFails ==
    [][(comb[1].chunkIds = <<>> /\ comb[1].pc = "write" /\ comb'[1].pc # "write") =>
          /\ comb'[1].pc = "done"
          /\ comb'[1].combinedData = <<>>
          /\ ~JSONParse(comb'[1].combinedData).ok
          /\ comb'[1].res = Failure(500, "Failed to combine chunks")
          /\ fs' = fs]_vars

\* a combine with an empty list and a valid timestamp has just answered
C9_Witness ==
    /\ last = Step("CombineWrite", 1)
    /\ comb[1].pc = "done"
    /\ comb[1].chunkIds = <<>>
    /\ comb[1].timestamp = StartTime

\* C10: GET /api/backup on a Backup Store that is empty or holds no file
\* ending in .json answers 404 with success = false, not an error.
C10_NoBackupIsNotFound ==
    (last.op = "GetList" /\ JsonFiles(Readdir(backupsDir)) = {}) =>
        /\ get.pc = "done"
        /\ get.res.status = 404
        /\ ~get.res.success
        /\ get.res.data = <<>>

\* a GET has just answered 404 on a Backup Store that holds a file, none
\* ending in .json
C10_Witness ==
    /\ last.op = "GetList"
    /\ Readdir(backupsDir) # {}
    /\ JsonFiles(Readdir(backupsDir)) = {}
    /\ get.res.status = 404

\* the paths the ids of combine c name
ListedPaths(c) ==
    {PathJoin(tempDir, comb[c].chunkIds[k]) : k \in DOMAIN comb[c].chunkIds}

\* the step is the last one of combine c, taken with a text that fails to
\* parse
ParseFailureStep(c) ==
    /\ comb[c].pc = "write"
    /\ ~JSONParse(comb[c].combinedData).ok
    /\ last' = Step("CombineWrite", c)

\* C11: when a combine fails because the concatenated content does not
\* parse, every chunk it listed has already been deleted by it and is not
\* restored (a listed path exists only if an upload wrote it again), no
\* backup file is written, and the client receives a failure response.
C11_ParseFailureLeavesChunksDeleted ==
    [][ParseFailureStep(1) =>
          /\ Unlinked(1) = ListedPaths(1)
          /\ \A p \in ListedPaths(1) : p \in DOMAIN fs' => p \in comb'[1].rewritten
          /\ fs' = fs
          /\ comb'[1].pc = "done"
          /\ comb'[1].res = Failure(500, "Failed to combine chunks")]_vars

\* a combine of uploaded chunks, sent with a valid timestamp, has just
\* failed on a text that does not parse
C11_Witness ==
    /\ last = Step("CombineWrite", 1)
    /\ comb[1].pc = "done"
    /\ ~comb[1].res.success
    /\ comb[1].chunkIds # <<>>
    /\ Range(comb[1].chunkIds) \subseteq PlainChunkIds
    /\ comb[1].timestamp = StartTime
    /\ ~JSONParse(comb[1].combinedData).ok

\* the two combines have both answered, their lists share a chunk id, each
\* was in flight while the other was, and no upload wrote again a chunk one
\* of them had deleted
RacedOnSharedChunk ==
    /\ comb[1].pc = "done" /\ comb[2].pc = "done"
    /\ comb[1].overlap /\ comb[2].overlap
    /\ Range(comb[1].chunkIds) \cap Range(comb[2].chunkIds) # {}
    /\ comb[1].rewritten = {} /\ comb[2].rewritten = {}

\* C12: when two combine calls whose lists share a chunk id run
\* concurrently and no chunk is uploaded meanwhile, at most one of the two
\* returns success (the one that reaches the shared chunk after the other
\* deleted it fails and writes no backup).
C12_AtMostOneCombineSucceeds ==
    RacedOnSharedChunk => ~(comb[1].res.success /\ comb[2].res.success)

\* combine c is about to unlink a file that is no longer there
CombineUnlinksAbsent(c) ==
    /\ comb[c].pc = "unlink"
    /\ ~Exists(PathJoin(tempDir, comb[c].chunkIds[comb[c].i]))

\* the sweeper is about to unlink a file that is no longer there
SweepUnlinksAbsent ==
    /\ sweep.pc = "unlink"
    /\ ~Exists(PathJoin(tempDir, sweep.files[sweep.i]))

\* C13: deleting a chunk that is already absent is a silent no-op: in
\* combine and in the sweeper an absent file raises no error, so the combine
\* goes on to its next id and the sweep run is not aborted.
C13_DeleteOfAbsentChunkIsNoOp ==
    [][/\ (CombineUnlinksAbsent(1) /\ last' = Step("CombineUnlink", 1)) =>
             /\ comb'[1].pc \in {"read", "write"}
             /\ comb'[1].res = NoRes
       /\ (SweepUnlinksAbsent /\ last'.op = "SweepUnlink") =>
             sweep'.outcome # "aborted"]_vars

\* the listed entries that were written before the run before this one
\* started and are still there as written: this run is at least the second
\* one after their write, and they were neither rewritten nor consumed
LeftBySecondSweep ==
    {k \in DOMAIN sweep.files :
        LET path == PathJoin(tempDir, sweep.files[k])
        IN  Exists(path) /\ fs[path].mtime < sweep.prev}

\* C14: under hourly sweep runs a chunk that is written and then neither
\* rewritten nor consumed by a combine is removed at the latest by the
\* second sweep run after its write.
C14_ChunkRemovedBySecondSweep ==
    (SweepEnded /\ sweep.prev > 0) => LeftBySecondSweep = {}

\* a failure envelope with one of the messages msgs
FailureEnvelope(res, msgs) ==
    /\ ~res.success
    /\ res.status \in {404, 500}
    /\ res.message \in msgs
    /\ res.data = <<>>

\* an answer of a route: success with status 200, or a failure envelope
RouteAnswer(res, msgs) ==
    res # NoRes => (res.success /\ res.status = 200) \/ FailureEnvelope(res, msgs)

\* a route that has just answered success has done its work
SuccessMeansDone ==
    /\ (last.op = "Upload" /\ upload.res.success) =>
          Exists(PathJoin(tempDir, upload.res.chunkId))
    /\ (last.op = "Save" /\ save.res.success) =>
          /\ Exists(PathJoin(backupsDir, save.filename))
          /\ fs[PathJoin(backupsDir, save.filename)].content = JSONStringify(save.doc)
    /\ (last = Step("CombineWrite", 1) /\ comb[1].res.success) =>
          LET filepath == PathJoin(backupsDir, BackupFilename(comb[1].timestamp))
          IN  /\ JSONParse(comb[1].combinedData).ok
              /\ Exists(filepath)
              /\ fs[filepath].content =
                    JSONStringify(JSONParse(comb[1].combinedData).val)
    /\ (last.op = "GetRead" /\ get.res.success) =>
          /\ Exists(PathJoin(backupsDir, get.latestFile))
          /\ JSONParse(fs[PathJoin(backupsDir, get.latestFile)].content) =
                ParseOk(get.res.data[1])

\* while clients have requests to send, a route that has answered, with
\* success or with a failure, takes the next one
KeepsServing ==
    nreq < MaxRequests =>
        /\ ~InFlight(1) => ENABLED CombineStart(1, <<>>, StartTime)
        /\ get.pc # "read" => ENABLED GetList

\* C15: every failure inside an API route is answered with a failure
\* envelope (success = false, status 404 or 500, one of the fixed messages);
\* no route answers success = true for an operation that did not complete,
\* and the server keeps serving later requests.
C15_FailuresAreEnvelopes ==
    /\ RouteAnswer(upload.res, {"Failed to save chunk", "Something broke!"})
    /\ RouteAnswer(comb[1].res, {"Failed to combine chunks"})
    /\ RouteAnswer(save.res, {"Failed to save backup"})
    /\ RouteAnswer(get.res, {"No backups found", "No backup files found",
                             "Failed to load backup"})
    /\ SuccessMeansDone
    /\ KeepsServing

\* a chunk upload failed on its write, a GET found no backup, and a combine
\* has just failed on a missing chunk
C15_Witness ==
    /\ last = Step("CombineRead", 1)
    /\ comb[1].res = Failure(500, "Failed to combine chunks")
    /\ upload.res = Failure(500, "Failed to save chunk")
    /\ get.res = Failure(404, "No backups found")

\* the file the id at position comb[c].i names
CurrentChunkPath(c) == PathJoin(tempDir, comb[c].chunkIds[comb[c].i])

\* C16: the document a successful combine persists is the parse of the
\* chunk contents concatenated in exactly the order of the chunkIds list,
\* with nothing inserted between them: the text starts empty, each read
\* appends the content of the file the next listed id names, the position
\* moves on by one after each unlink, and the file written holds the parse
\* of that text once every position was read.  The index in an id is never
\* looked at.
C16_ConcatenatesInListOrder ==
    [][/\ last' = Step("CombineStart", 1) =>
             comb'[1].combinedData = <<>> /\ comb'[1].i = 1
       /\ (last' = Step("CombineRead", 1) /\ comb'[1].pc = "unlink") =>
             /\ comb'[1].combinedData =
                   comb[1].combinedData \o fs[CurrentChunkPath(1)].content
             /\ comb'[1].i = comb[1].i
       /\ (last' = Step("CombineUnlink", 1) /\ comb'[1].pc # "done") =>
             /\ comb'[1].combinedData = comb[1].combinedData
             /\ comb'[1].i = comb[1].i + 1
       /\ (last' = Step("CombineWrite", 1) /\ comb'[1].res.success) =>
             LET filepath == PathJoin(backupsDir, BackupFilename(comb[1].timestamp))
             IN  /\ comb[1].i = Len(comb[1].chunkIds) + 1
                 /\ fs'[filepath].content =
                       JSONStringify(JSONParse(comb[1].combinedData).val)]_vars

\* a combine that listed the chunk of index 1 before the chunk of index 0
\* has just persisted the document whose text is the first followed by the
\* second
C16_Witness ==
    /\ CombineSucceeded(1)
    /\ comb[1].chunkIds = <<ChunkIdOf(Decimal(StartTime), Decimal(1)),
                             ChunkIdOf(Decimal(StartTime), Decimal(0))>>
    /\ comb[1].combinedData = ClientStringify(Arr(<<0>>))
    /\ fs[PathJoin(backupsDir, BackupFilename(comb[1].timestamp))].content =
          JSONStringify(Arr(<<0>>))

\* the paths the sweep run has unlinked
SweptPaths == {r.path : r \in sweep.removed}

\* combine c is about to read a chunk that the sweeper has deleted
ReadsSweptChunk(c) ==
    /\ comb[c].pc = "read"
    /\ CurrentChunkPath(c) \in SweptPaths
    /\ ~Exists(CurrentChunkPath(c))

\* C17: a combine racing the sweeper can fail with not-found: when the
\* sweeper has deleted the chunk a combine is about to read, the read fails,
\* the combine answers failure and writes nothing, and the chunks earlier in
\* its list stay deleted (C17_Witness is the interleaving, which is
\* reachable).
C17_SweptChunkFailsCombine ==
    [][(ReadsSweptChunk(1) /\ last' = Step("CombineRead", 1)) =>
          /\ comb'[1].pc = "done"
          /\ comb'[1].res = Failure(500, "Failed to combine chunks")
          /\ fs' = fs
          /\ \A p \in Unlinked(1) : p \in DOMAIN fs' => p \in comb'[1].rewritten]_vars

\* every listed chunk existed when the combine started, the combine read and
\* deleted its first chunk, the sweeper deleted the second, which was stale,
\* and the read of the second has just failed
C17_Witness ==
    /\ last = Step("CombineRead", 1)
    /\ comb[1].pc = "done"
    /\ ~comb[1].res.success
    /\ comb[1].allPresent
    /\ comb[1].i = 2
    /\ Unlinked(1) \cap DOMAIN fs = {}
    /\ \E r \in sweep.removed :
          r.path = CurrentChunkPath(1) /\ IsStale(sweep.now, r.mtime)
    /\ ~Exists(CurrentChunkPath(1))

\* the step creates a backup file or changes the content of one
WritesBackup ==
    \E p \in DOMAIN fs' :
        DirOf(p) = backupsDir /\ (p \notin DOMAIN fs \/ fs'[p] # fs[p])

\* C18: no partial reassembly is ever persisted: a step of a combine that
\* creates or modifies a backup file is its last step, taken after every
\* listed id was read, and answers success; a step on which a combine fails
\* (missing chunk, parse error, invalid timestamp) writes no backup file.
C18_NoPartialReassemblyPersisted ==
    [][/\ (last'.c = 1 /\ WritesBackup) =>
             /\ last'.op = "CombineWrite"
             /\ comb[1].i = Len(comb[1].chunkIds) + 1
             /\ comb'[1].pc = "done"
             /\ comb'[1].res.success
       /\ (last'.c = 1 /\ comb'[1].pc = "done" /\ ~comb'[1].res.success) =>
             ~WritesBackup]_vars

\* a combine that read and deleted its chunks, whose text parses, has just
\* failed on its timestamp, and the Backup Store holds nothing
C18_Witness ==
    /\ last = Step("CombineWrite", 1)
    /\ comb[1].pc = "done"
    /\ ~comb[1].res.success
    /\ comb[1].chunkIds # <<>>
    /\ comb[1].timestamp = InvalidTime
    /\ JSONParse(comb[1].combinedData).ok
    /\ Readdir(backupsDir) = {}

\* every file but the one at path is there before and after the step, as it
\* was
OthersUntouched(path) ==
    \A p \in (DOMAIN fs \cup DOMAIN fs') \ {path} :
        p \in DOMAIN fs /\ p \in DOMAIN fs' /\ fs'[p] = fs[p]

\* C19: when a combine fails because a listed chunk is missing, the chunks
\* listed before the missing one have been deleted while the chunks listed
\* after it are left in place unchanged: a step of the loop touches no file
\* but the one at its position, and the step that finds it missing ends the
\* combine at that position with the earlier chunks deleted and no file
\* changed.
C19_MissingChunkStopsAtItsPosition ==
    [][(last'.c = 1 /\ last'.op \in {"CombineRead", "CombineUnlink"}) =>
          /\ OthersUntouched(CurrentChunkPath(1))
          /\ ~Exists(CurrentChunkPath(1)) =>
                /\ comb'[1].pc = "done"
                /\ comb'[1].res = Failure(500, "Failed to combine chunks")
                /\ comb'[1].i = comb[1].i
                /\ fs' = fs
                /\ \A p \in Unlinked(1) :
                      p \in DOMAIN fs' => p \in comb'[1].rewritten]_vars

\* a combine of two ids has just failed on its first, which is missing, and
\* the chunk of its second id is in place
C19_Witness ==
    /\ last = Step("CombineRead", 1)
    /\ comb[1].pc = "done"
    /\ ~comb[1].res.success
    /\ Len(comb[1].chunkIds) = 2
    /\ comb[1].i = 1
    /\ ~Exists(CurrentChunkPath(1))
    /\ InTemp(comb[1].chunkIds[2])

====
